---------------------------- MODULE Spec2Model ----------------------------
(***************************************************************************)
(* A model of the two POX controller applications of this repository:     *)
(*   SimpleLoadBalancer      (src/simple_load_balancer.py)                 *)
(*   LoadBalancerController  (src/load_balancer_controller.py)             *)
(* Every handler runs to completion (POX is a single-threaded event loop), *)
(* so each handler is one action.  The switch, the OpenFlow transport and  *)
(* the timer are the environment: they deliver events and take commands.   *)
(***************************************************************************)
EXTENDS Integers, Sequences, FiniteSets, TLC

(* ------------------------------ bounds -------------------------------- *)
MaxPort == 2       \* switch ports a packet-in can arrive on: 1..MaxPort
MaxPending == 2    \* cap on the callLater callbacks outstanding at once
MaxTime == 3       \* time.time() takes the values 0..MaxTime

(* The checked configuration: two switches, two hosts. *)
Dpids == {1, 2}
Macs == {1, 2}
Ports == 1..MaxPort

(* ---------------------- OpenFlow 1.0 constants ------------------------ *)
OFPP_MAX == 65280
OFPP_FLOOD == 65531
OFPP_CONTROLLER == 65533
OFP_DEFAULT_PRIORITY == 32768
OFP_FLOW_PERMANENT == 0

PacketTypes == {"ARP", "LLDP", "IPV6", "IP"}

(* event.parsed of a packet-in.  A frame too short to parse keeps the      *)
(* ethernet defaults: parsed = False and all-zero addresses.               *)
UnparsedPacket == [parsed |-> FALSE, src |-> 0, dst |-> 0, type |-> "NONE"]
ParsedPackets == [parsed : {TRUE}, src : Macs, dst : Macs, type : PacketTypes]
Packets == ParsedPackets \cup {UnparsedPacket}

VARIABLES
    mac_table,         \* SimpleLoadBalancer.mac_table: dpid -> (mac -> port)
    flow_counters,     \* SimpleLoadBalancer.flow_counters: port_key -> counters
    congested_links,   \* SimpleLoadBalancer.congested_links: set of port_key
    mac_to_port,       \* LoadBalancerController.mac_to_port
    switch_stats,      \* LoadBalancerController.switch_stats
    connections,       \* core.openflow._connections, in insertion order
    pending,           \* number of core.callLater callbacks not yet fired
    clock,             \* the value time.time() returns
    sent,              \* the commands the last handler sent, in order
    transitions,       \* congestion transitions the last handler logged
                       \* (lines 182 and 187; other log lines are left out)
    last_transition,   \* per port_key, the most recent transition logged
    event,             \* the event the last handler was given
    exception          \* the exception the last handler ended with, or "none"

vars == <<mac_table, flow_counters, congested_links, mac_to_port, switch_stats,
          connections, pending, clock, sent, transitions, last_transition, event,
          exception>>

(* ------------------------------ commands ------------------------------ *)
\* of.ofp_match(): every field wildcarded
WildcardMatch == [in_port |-> 0, dl_src |-> 0, dl_dst |-> 0, dl_type |-> "ANY"]

\* of.ofp_match.from_packet(packet, in_port)
from_packet(packet, in_port) ==
    [in_port |-> in_port, dl_src |-> packet.src, dl_dst |-> packet.dst,
     dl_type |-> packet.type]

FlowMod(dpid, match, out_port, priority, idle, hard) ==
    [kind |-> "flow_mod", to |-> dpid, match |-> match, out_port |-> out_port,
     priority |-> priority, idle_timeout |-> idle, hard_timeout |-> hard]

PacketOut(dpid, packet, out_port, in_port) ==
    [kind |-> "packet_out", to |-> dpid, data |-> packet, out_port |-> out_port,
     in_port |-> in_port]

StatsRequest(dpid) ==
    [kind |-> "stats_request", to |-> dpid, body |-> "port_stats"]

NoEvent == [kind |-> "none", dpid |-> 0, port |-> 0, packet |-> UnparsedPacket]
Event(kind, dpid, port, packet) ==
    [kind |-> kind, dpid |-> dpid, port |-> port, packet |-> packet]

Contains(seq, x) == \E i \in 1..Len(seq) : seq[i] = x

(* -------------------- SimpleLoadBalancer: polling --------------------- *)
\* _request_stats_for_connection(connection)
_request_stats_for_connection(dpid) == <<StatsRequest(dpid)>>

RECURSIVE RequestAll(_)
RequestAll(conns) ==
    IF conns = <<>> THEN <<>>
    ELSE _request_stats_for_connection(Head(conns)) \o RequestAll(Tail(conns))

\* a callback that is not scheduled again
callLater_Dropped(n) == n

\* core.callLater(self.monitoring_interval, self._request_stats)
callLater(n) == n + 1

\* core.openflow._connections[dpid] = connection (the transport, on connect)
Connect(conns, dpid) == IF Contains(conns, dpid) THEN conns ELSE Append(conns, dpid)

\* the table-miss rule left at the default priority
TableMiss_DefaultPriority(dpid) ==
    FlowMod(dpid, WildcardMatch, OFPP_CONTROLLER, OFP_DEFAULT_PRIORITY,
            OFP_FLOW_PERMANENT, OFP_FLOW_PERMANENT)

\* lines 34-36: priority 0, default (wildcard) match, output to controller
TableMiss(dpid) ==
    FlowMod(dpid, WildcardMatch, OFPP_CONTROLLER, 0, OFP_FLOW_PERMANENT,
            OFP_FLOW_PERMANENT)

\* a ConnectionUp emptying the table of every switch
ResetTable_All(tables, dpid) ==
    [d \in DOMAIN tables \cup {dpid} |-> <<>>]

\* line 31: self.mac_table[dpid] = {}
ResetTable(tables, dpid) ==
    [d \in DOMAIN tables \cup {dpid} |-> IF d = dpid THEN <<>> ELSE tables[d]]

\* SimpleLoadBalancer._handle_ConnectionUp
_handle_ConnectionUp(dpid) ==
    /\ pending < MaxPending
    /\ connections' = Connect(connections, dpid)
    /\ mac_table' = ResetTable(mac_table, dpid)
    /\ sent' = <<TableMiss(dpid)>> \o _request_stats_for_connection(dpid)
    /\ pending' = callLater(pending)
    /\ transitions' = <<>>
    /\ event' = Event("ConnectionUp", dpid, 0, UnparsedPacket)
    /\ exception' = "none"
    /\ UNCHANGED <<flow_counters, congested_links, mac_to_port, switch_stats,
                   clock, last_transition>>

\* SimpleLoadBalancer._request_stats(connection=None): the timer fires
_request_stats ==
    /\ pending > 0
    /\ sent' = RequestAll(connections)
    /\ pending' = callLater(pending - 1)
    /\ transitions' = <<>>
    /\ event' = Event("Timer", 0, 0, UnparsedPacket)
    /\ exception' = "none"
    /\ UNCHANGED <<mac_table, flow_counters, congested_links, mac_to_port,
                   switch_stats, connections, clock, last_transition>>

(* ------------------- SimpleLoadBalancer: forwarding ------------------- *)
\* lines 74-75: learn the source address
Learn(table, src, in_port) ==
    IF src \notin DOMAIN table THEN table @@ (src :> in_port) ELSE table

\* _install_flow with the match taken at the output port instead
_install_flow_MatchAtOutPort(dpid, packet, in_port, out_port) ==
    <<FlowMod(dpid, from_packet(packet, out_port), out_port,
              OFP_DEFAULT_PRIORITY, 10, 30)>>

_install_flow(dpid, packet, in_port, out_port) ==
    <<FlowMod(dpid, from_packet(packet, in_port), out_port,
              OFP_DEFAULT_PRIORITY, 10, 30)>>

_send_packet(dpid, packet, in_port, out_port) ==
    <<PacketOut(dpid, packet, out_port, in_port)>>

_flood_packet(dpid, packet, in_port) ==
    <<PacketOut(dpid, packet, OFPP_FLOOD, in_port)>>

_handle_arp(dpid, packet, in_port) == _flood_packet(dpid, packet, in_port)

\* _handle_other_packet installing a flood rule for an unknown destination
_handle_other_packet_FloodRule(table, dpid, packet, in_port) ==
    IF packet.dst \in DOMAIN table
    THEN _install_flow(dpid, packet, in_port, table[packet.dst])
         \o _send_packet(dpid, packet, in_port, table[packet.dst])
    ELSE _install_flow(dpid, packet, in_port, OFPP_FLOOD)
         \o _flood_packet(dpid, packet, in_port)

_handle_other_packet(table, dpid, packet, in_port) ==
    IF packet.dst \in DOMAIN table
    THEN _install_flow(dpid, packet, in_port, table[packet.dst])
         \o _send_packet(dpid, packet, in_port, table[packet.dst])
    ELSE _flood_packet(dpid, packet, in_port)

\* the dispatch with ARP handled like any other packet
Dispatch_ArpLikeOther(table, dpid, packet, in_port) ==
    IF packet.type = "LLDP" \/ packet.type = "IPV6" THEN <<>>
    ELSE _handle_other_packet(table, dpid, packet, in_port)

\* the dispatch ignoring LLDP only
Dispatch_OnlyLldpIgnored(table, dpid, packet, in_port) ==
    IF packet.type = "LLDP" THEN <<>>
    ELSE IF packet.type = "ARP" THEN _handle_arp(dpid, packet, in_port)
    ELSE _handle_other_packet(table, dpid, packet, in_port)

\* lines 78-85: the dispatch on packet.type, given the table after learning
Dispatch(table, dpid, packet, in_port) ==
    IF packet.type = "LLDP" \/ packet.type = "IPV6" THEN <<>>
    ELSE IF packet.type = "ARP" THEN _handle_arp(dpid, packet, in_port)
    ELSE _handle_other_packet(table, dpid, packet, in_port)

\* learning into the table of every switch
LearnOn_EverySwitch(tables, dpid, src, in_port) ==
    [d \in DOMAIN tables |-> Learn(tables[d], src, in_port)]

\* lines 70-76: the source is learned in the table of the packet's switch
LearnOn(tables, dpid, src, in_port) ==
    [tables EXCEPT ![dpid] = Learn(@, src, in_port)]

Parsed_Always(packet) == TRUE

\* The guard of lines 65-68: a packet that could not be parsed is dropped.
Parsed(packet) == packet.parsed

\* SimpleLoadBalancer._handle_PacketIn.  self.mac_table[dpid] (line 74) raises
\* KeyError for a dpid without an entry; POX logs a handler's exception and
\* goes on with the next event.
_handle_PacketIn(dpid, in_port, packet) ==
    /\ Contains(connections, dpid)
    /\ IF ~Parsed(packet)
       THEN /\ sent' = <<>>
            /\ exception' = "none"
            /\ UNCHANGED mac_table
       ELSE IF dpid \notin DOMAIN mac_table
       THEN /\ sent' = <<>>
            /\ exception' = "KeyError"
            /\ UNCHANGED mac_table
       ELSE /\ mac_table' = LearnOn(mac_table, dpid, packet.src, in_port)
            /\ sent' = Dispatch(mac_table'[dpid], dpid, packet, in_port)
            /\ exception' = "none"
    /\ transitions' = <<>>
    /\ event' = Event("PacketIn", dpid, in_port, packet)
    /\ UNCHANGED <<flow_counters, congested_links, mac_to_port, switch_stats,
                   connections, pending, clock, last_transition>>

(* ---------------- SimpleLoadBalancer: link statistics ----------------- *)
\* port_key = f"{dpid}-{port}".  dpidToStr gives a fixed-width string and the
\* port is printed in decimal after the last "-", so the key determines the
\* pair and the pair the key.
PortKey(dpid, port) == <<dpid, port>>

RECURSIVE GCD(_, _)
GCD(a, b) == IF b = 0 THEN a ELSE GCD(b, a % b)

Abs(x) == IF x < 0 THEN -x ELSE x

\* A rate or a ratio of the code is a float; here it is the exact fraction
\* num/den in lowest terms with den > 0, so equal values are equal records.
Ratio(num, den) ==
    LET g == GCD(Abs(num), den)
    IN  [num |-> num \div g, den |-> den \div g]

Zero == Ratio(0, 1)

\* line 15: self.congestion_threshold = 0.7
congestion_threshold == Ratio(7, 10)

\* line 164: link_capacity = 100 * 1024 * 1024 / 8
link_capacity == (100 * 1024 * 1024) \div 8

\* lines 160-165: (rx_rate + tx_rate) / link_capacity
Utilization(rx_delta, tx_delta, time_diff) ==
    Ratio(rx_delta + tx_delta, time_diff * link_capacity)

\* a >= b
GreaterOrEqual(a, b) == a.num * b.den >= b.num * a.den

\* a > b, for fractions with positive denominators
Greater(a, b) == a.num * b.den > b.num * a.den

\* the congestion check logging Raised for every sample above the threshold
CheckCongestion_EverySample(st, port_key, utilization) ==
    IF Greater(utilization, congestion_threshold)
    THEN [st EXCEPT !.cl = @ \cup {port_key},
                    !.tr = Append(@, <<"Raised", port_key>>),
                    !.lt = [k \in DOMAIN @ \cup {port_key} |->
                               IF k = port_key THEN "Raised" ELSE @[k]]]
    ELSE IF port_key \in st.cl
         THEN [st EXCEPT !.cl = @ \ {port_key},
                         !.tr = Append(@, <<"Cleared", port_key>>),
                         !.lt = [k \in DOMAIN @ \cup {port_key} |->
                                    IF k = port_key THEN "Cleared" ELSE @[k]]]
         ELSE st

\* the congestion check that never clears a congested link
CheckCongestion_NeverCleared(st, port_key, utilization) ==
    IF Greater(utilization, congestion_threshold) /\ port_key \notin st.cl
    THEN [st EXCEPT !.cl = @ \cup {port_key},
                    !.tr = Append(@, <<"Raised", port_key>>),
                    !.lt = [k \in DOMAIN @ \cup {port_key} |->
                               IF k = port_key THEN "Raised" ELSE @[k]]]
    ELSE st

\* lines 180-188, on the handler's working state st = [fc, cl, tr, lt]
CheckCongestion(st, port_key, utilization) ==
    IF Greater(utilization, congestion_threshold)
    THEN IF port_key \notin st.cl
         THEN [st EXCEPT !.cl = @ \cup {port_key},
                         !.tr = Append(@, <<"Raised", port_key>>),
                         !.lt = [k \in DOMAIN @ \cup {port_key} |->
                                    IF k = port_key THEN "Raised" ELSE @[k]]]
         ELSE st
    ELSE IF port_key \in st.cl
         THEN [st EXCEPT !.cl = @ \ {port_key},
                         !.tr = Append(@, <<"Cleared", port_key>>),
                         !.lt = [k \in DOMAIN @ \cup {port_key} |->
                                    IF k = port_key THEN "Cleared" ELSE @[k]]]
         ELSE st

\* the first sample taken as a rate over one second from zero
Baseline_AsRate(stat, current_time) ==
    [prev_rx |-> stat.rx_bytes, prev_tx |-> stat.tx_bytes,
     prev_time |-> current_time,
     utilization |-> Utilization(stat.rx_bytes, stat.tx_bytes, 1)]

\* lines 148-155: the first sample of a key becomes its baseline
Baseline(stat, current_time) ==
    [prev_rx |-> stat.rx_bytes, prev_tx |-> stat.tx_bytes,
     prev_time |-> current_time, utilization |-> Zero]

\* an accepted sample that leaves the stored baseline as it was
Advance_KeepBaseline(counters, stat, current_time) ==
    [prev_rx |-> counters.prev_rx, prev_tx |-> counters.prev_tx,
     prev_time |-> counters.prev_time,
     utilization |-> Utilization(stat.rx_bytes - counters.prev_rx,
                                 stat.tx_bytes - counters.prev_tx,
                                 current_time - counters.prev_time)]

\* lines 157-173: a later sample with time_diff > 0 replaces the baseline
Advance(counters, stat, current_time) ==
    [prev_rx |-> stat.rx_bytes, prev_tx |-> stat.tx_bytes,
     prev_time |-> current_time,
     utilization |-> Utilization(stat.rx_bytes - counters.prev_rx,
                                 stat.tx_bytes - counters.prev_tx,
                                 current_time - counters.prev_time)]

\* _update_link_stats taking a sample with no positive time delta as a new
\* baseline
_update_link_stats_Rebase(st, dpid, port, stat, current_time) ==
    LET port_key == PortKey(dpid, port)
    IN  IF port_key \notin DOMAIN st.fc
        THEN [st EXCEPT !.fc = @ @@ (port_key :> Baseline(stat, current_time))]
        ELSE IF current_time - st.fc[port_key].prev_time > 0
             THEN LET c == Advance(st.fc[port_key], stat, current_time)
                  IN  CheckCongestion([st EXCEPT !.fc[port_key] = c],
                                      port_key, c.utilization)
             ELSE [st EXCEPT !.fc[port_key] = Baseline(stat, current_time)]

\* SimpleLoadBalancer._update_link_stats
_update_link_stats(st, dpid, port, stat, current_time) ==
    LET port_key == PortKey(dpid, port)
    IN  IF port_key \notin DOMAIN st.fc
        THEN [st EXCEPT !.fc = @ @@ (port_key :> Baseline(stat, current_time))]
        ELSE IF current_time - st.fc[port_key].prev_time > 0
             THEN LET c == Advance(st.fc[port_key], stat, current_time)
                  IN  CheckCongestion([st EXCEPT !.fc[port_key] = c],
                                      port_key, c.utilization)
             ELSE st

Reserved_AboveMax(port_no) == port_no > OFPP_MAX

\* line 138: reserved port numbers are skipped
Reserved(port_no) == port_no >= OFPP_MAX

\* lines 137-141: the loop over event.stats
RECURSIVE ForEachStat(_, _, _, _)
ForEachStat(st, dpid, stats, current_time) ==
    IF stats = <<>> THEN st
    ELSE LET stat == Head(stats)
             after == IF Reserved(stat.port_no) THEN st
                      ELSE _update_link_stats(st, dpid, stat.port_no, stat,
                                              current_time)
         IN  ForEachStat(after, dpid, Tail(stats), current_time)

\* The handler's working state at its entry
Entry == [fc |-> flow_counters, cl |-> congested_links, tr |-> <<>>,
          lt |-> last_transition]

\* SimpleLoadBalancer._handle_PortStatsReceived
_handle_PortStatsReceived(dpid, stats) ==
    /\ Contains(connections, dpid)
    /\ LET st == ForEachStat(Entry, dpid, stats, clock)
       IN  /\ flow_counters' = st.fc
           /\ congested_links' = st.cl
           /\ transitions' = st.tr
           /\ last_transition' = st.lt
    /\ sent' = <<>>
    /\ event' = Event("PortStatsReceived", dpid, 0, UnparsedPacket)
    /\ exception' = "none"
    /\ UNCHANGED <<mac_table, mac_to_port, switch_stats, connections, pending,
                   clock>>

\* time.time() between two handlers: a wall clock, which the system may set
\* back as well as forward
Tick ==
    /\ \E t \in 0..MaxTime : t # clock /\ clock' = t
    /\ UNCHANGED <<mac_table, flow_counters, congested_links, mac_to_port,
                   switch_stats, connections, pending, sent, transitions,
                   last_transition, event, exception>>

(* The stats replies of the checked configuration: the replies of switch 1  *)
(* are followed (both switches may connect).  A reply lists port 1,        *)
(* the first reserved port, or both in either order, each once; the byte   *)
(* counters of port 1 are 0, or grow from one value to the next by one     *)
(* byte more than 70% of one second of capacity (twice), then by exactly   *)
(* 70% of one second of capacity.                                          *)
ThresholdBytes == (7 * link_capacity) \div 10
StatDpids == {1}
StatPorts == {1, OFPP_MAX}
ByteCounts == {<<0, 0>>, <<ThresholdBytes, 1>>, <<2 * ThresholdBytes, 2>>,
               <<3 * ThresholdBytes, 2>>}
Stats == {[port_no |-> p, rx_bytes |-> b[1], tx_bytes |-> b[2]] :
             p \in StatPorts, b \in ByteCounts}
StatsReplies ==
    {s \in UNION {[1..n -> Stats] : n \in 1..Cardinality(StatPorts)} :
        /\ \A i, j \in 1..Len(s) : s[i].port_no = s[j].port_no => i = j
        /\ \A i \in 1..Len(s) : Reserved(s[i].port_no) => s[i].rx_bytes = 0}

(* ----------------------- LoadBalancerController ----------------------- *)
\* LoadBalancerController._send_packet
LBC_send_packet(dpid, packet, in_port, out_port) ==
    <<PacketOut(dpid, packet, out_port, in_port)>>

\* LoadBalancerController._install_flow
LBC_install_flow(dpid, packet, in_port, out_port) ==
    <<FlowMod(dpid, from_packet(packet, in_port), out_port,
              OFP_DEFAULT_PRIORITY, 10, 30)>>
    \o (IF out_port # OFPP_FLOOD
        THEN LBC_send_packet(dpid, packet, in_port, out_port)
        ELSE <<>>)

\* line 46: self.mac_to_port[dpid][packet.src] = in_port
LBC_Learn(table, src, in_port) ==
    [m \in DOMAIN table \cup {src} |-> IF m = src THEN in_port ELSE table[m]]

\* lines 49-55: the output port, given the table after learning
LBC_out_port(table, packet) ==
    IF packet.dst \in DOMAIN table THEN table[packet.dst] ELSE OFPP_FLOOD

\* LoadBalancerController._handle_ConnectionUp
LBC_handle_ConnectionUp(dpid) ==
    /\ pending < MaxPending
    /\ connections' = Connect(connections, dpid)
    /\ switch_stats' = [d \in DOMAIN switch_stats \cup {dpid} |->
                           IF d = dpid THEN <<>> ELSE switch_stats[d]]
    /\ mac_to_port' = [d \in DOMAIN mac_to_port \cup {dpid} |->
                          IF d = dpid THEN <<>> ELSE mac_to_port[d]]
    /\ sent' = _request_stats_for_connection(dpid)
    /\ pending' = callLater(pending)
    /\ event' = Event("ConnectionUp", dpid, 0, UnparsedPacket)
    /\ exception' = "none"
    /\ UNCHANGED <<mac_table, flow_counters, congested_links, clock,
                   transitions, last_transition>>

\* LoadBalancerController._request_stats(event=None): the timer fires
LBC_request_stats ==
    /\ pending > 0
    /\ sent' = RequestAll(connections)
    /\ pending' = callLater(pending - 1)
    /\ event' = Event("Timer", 0, 0, UnparsedPacket)
    /\ exception' = "none"
    /\ UNCHANGED <<mac_table, flow_counters, congested_links, mac_to_port,
                   switch_stats, connections, clock, transitions,
                   last_transition>>

\* LoadBalancerController._handle_PacketIn
LBC_handle_PacketIn(dpid, in_port, packet) ==
    /\ Contains(connections, dpid)
    /\ IF ~packet.parsed
       THEN /\ sent' = <<>>
            /\ UNCHANGED mac_to_port
       ELSE /\ mac_to_port' = [mac_to_port EXCEPT
                                  ![dpid] = LBC_Learn(@, packet.src, in_port)]
            /\ sent' = LBC_install_flow(dpid, packet, in_port,
                           LBC_out_port(mac_to_port'[dpid], packet))
    /\ event' = Event("PacketIn", dpid, in_port, packet)
    /\ exception' = "none"
    /\ UNCHANGED <<mac_table, flow_counters, congested_links, switch_stats,
                   connections, pending, clock, transitions, last_transition>>

(* --------------------------- specification ---------------------------- *)
Init ==
    /\ mac_table = <<>>
    /\ flow_counters = <<>>
    /\ congested_links = {}
    /\ mac_to_port = <<>>
    /\ switch_stats = <<>>
    /\ connections = <<>>
    /\ pending = 0
    /\ clock = 0
    /\ sent = <<>>
    /\ transitions = <<>>
    /\ last_transition = <<>>
    /\ event = NoEvent
    /\ exception = "none"

Next ==
    \/ \E dpid \in Dpids : _handle_ConnectionUp(dpid)
    \/ _request_stats
    \/ \E dpid \in Dpids, in_port \in Ports, packet \in Packets :
          _handle_PacketIn(dpid, in_port, packet)

Spec == Init /\ [][Next]_vars

NextStats ==
    \/ \E dpid \in Dpids : _handle_ConnectionUp(dpid)
    \/ Tick
    \/ \E dpid \in StatDpids, stats \in StatsReplies :
          _handle_PortStatsReceived(dpid, stats)

SpecStats == Init /\ [][NextStats]_vars

\* The scheduler runs every callback it was given: a pending _request_stats
\* fires after monitoring_interval seconds.
SpecFair == Init /\ [][Next]_vars /\ WF_vars(_request_stats)

\* The controller constructed while switches are already connected: they are
\* in core.openflow._connections, and their ConnectionUp was raised before
\* the listeners of line 24 were added.
InitAttached ==
    /\ mac_table = <<>>
    /\ flow_counters = <<>>
    /\ congested_links = {}
    /\ mac_to_port = <<>>
    /\ switch_stats = <<>>
    /\ connections \in {<<>>, <<1>>, <<2>>, <<1, 2>>, <<2, 1>>}
    /\ pending = 0
    /\ clock = 0
    /\ sent = <<>>
    /\ transitions = <<>>
    /\ last_transition = <<>>
    /\ event = NoEvent
    /\ exception = "none"

SpecAttached == InitAttached /\ [][Next]_vars

NextController ==
    \/ \E dpid \in Dpids : LBC_handle_ConnectionUp(dpid)
    \/ LBC_request_stats
    \/ \E dpid \in Dpids, in_port \in Ports, packet \in Packets :
          LBC_handle_PacketIn(dpid, in_port, packet)

SpecController == Init /\ [][NextController]_vars

(* ------------------------------ properties ---------------------------- *)
IsPacketIn == event.kind = "PacketIn" /\ event.packet.parsed
IsOther == IsPacketIn /\ event.packet.type \notin {"ARP", "LLDP", "IPV6"}
FlowMods == {i \in 1..Len(sent) : sent[i].kind = "flow_mod"}
PacketOuts == {i \in 1..Len(sent) : sent[i].kind = "packet_out"}

\* C1: after a parsed packet-in, the entry of its source address in that
\* switch's table is the packet's ingress port (the latest write wins).
C1_LatestWriteWins ==
    IsPacketIn => mac_table[event.dpid][event.packet.src] = event.port

\* C4: at most one poll callback is pending at any time.
C4_SinglePendingPoll == pending <= 1

\* C5: a packet-in that is not ARP, LLDP or IPv6 and whose destination is in
\* the switch's table sends exactly a flow-install (match from the packet at
\* its ingress port, output to the learned port, idle 10, hard 30) and then
\* one packet-out to the same learned port.
C5_UnicastInstallsThenSends ==
    (IsOther /\ event.packet.dst \in DOMAIN mac_table[event.dpid]) =>
        LET out_port == mac_table[event.dpid][event.packet.dst]
        IN  /\ Len(sent) = 2
            /\ sent[1].kind = "flow_mod"
            /\ sent[1].to = event.dpid
            /\ sent[1].match = [in_port |-> event.port,
                                dl_src |-> event.packet.src,
                                dl_dst |-> event.packet.dst,
                                dl_type |-> event.packet.type]
            /\ sent[1].out_port = out_port
            /\ sent[1].idle_timeout = 10
            /\ sent[1].hard_timeout = 30
            /\ sent[2].kind = "packet_out"
            /\ sent[2].to = event.dpid
            /\ sent[2].data = event.packet
            /\ sent[2].out_port = out_port

\* bb -> aa arrives on port 2 after aa was learned on port 1: unicast to 1
C5_Witness ==
    /\ IsOther
    /\ event.port = 2 /\ event.packet.src = 2 /\ event.packet.dst = 1
    /\ 1 \in DOMAIN mac_table[event.dpid] /\ mac_table[event.dpid][1] = 1
    /\ Len(sent) = 2 /\ sent[1].out_port = 1 /\ sent[2].out_port = 1

\* C6: a parsed ARP packet-in sends exactly one flood packet-out and no
\* flow-install, whatever the table holds.
C6_ArpFloods ==
    (IsPacketIn /\ event.packet.type = "ARP") =>
        /\ Len(sent) = 1
        /\ sent[1].kind = "packet_out"
        /\ sent[1].to = event.dpid
        /\ sent[1].out_port = OFPP_FLOOD
        /\ sent[1].data = event.packet

\* an ARP packet whose destination is already learned, on another port
C6_Witness ==
    /\ IsPacketIn /\ event.packet.type = "ARP"
    /\ event.packet.dst # event.packet.src
    /\ event.packet.dst \in DOMAIN mac_table[event.dpid]
    /\ mac_table[event.dpid][event.packet.dst] # event.port
    /\ Len(sent) = 1 /\ sent[1].out_port = OFPP_FLOOD

\* C7: a packet-in that is not ARP, LLDP or IPv6 and whose destination is not
\* in the switch's table when it is looked up (after the source was learned)
\* sends exactly one flood packet-out and no flow-install; so does every
\* later one, for as long as the destination is not in the table.
C7_UnknownFloods ==
    (IsOther /\ event.packet.dst \notin DOMAIN mac_table[event.dpid]) =>
        /\ FlowMods = {}
        /\ Len(sent) = 1
        /\ sent[1].kind = "packet_out"
        /\ sent[1].to = event.dpid
        /\ sent[1].out_port = OFPP_FLOOD
        /\ sent[1].data = event.packet

\* a packet to an unknown destination on a switch that has learned its source
C7_Witness ==
    /\ IsOther
    /\ event.packet.dst \notin DOMAIN mac_table[event.dpid]
    /\ event.packet.src \in DOMAIN mac_table[event.dpid]
    /\ Len(sent) = 1 /\ sent[1].out_port = OFPP_FLOOD

\* C8: in LoadBalancerController, a parsed packet-in whose destination is not
\* in the switch's table installs no flow rule and sends exactly one
\* packet-out of the packet with the flood action.
C8_ControllerFloodNoRule ==
    (IsPacketIn /\ event.packet.dst \notin DOMAIN mac_to_port[event.dpid]) =>
        /\ FlowMods = {}
        /\ Cardinality(PacketOuts) = 1
        /\ \A i \in PacketOuts : sent[i].out_port = OFPP_FLOOD

\* C9: a parsed LLDP or IPv6 packet-in sends no command at all.
C9_LldpIpv6Silent ==
    (IsPacketIn /\ event.packet.type \in {"LLDP", "IPV6"}) => sent = <<>>

\* an IPv6 packet whose destination is already learned
C9_Witness ==
    /\ IsPacketIn /\ event.packet.type = "IPV6"
    /\ event.packet.dst # event.packet.src
    /\ event.packet.dst \in DOMAIN mac_table[event.dpid]
    /\ sent = <<>>

(* Every sample a connected switch can report for one of its ports, applied *)
(* to the current state: what _update_link_stats does with it.              *)
Samples == {<<d, stat>> \in StatDpids \X Stats : ~Reserved(stat.port_no)}
KeyOf(x) == PortKey(x[1], x[2].port_no)
Applied(x) == _update_link_stats(Entry, x[1], x[2].port_no, x[2], clock)
Accepted(x) ==
    /\ KeyOf(x) \in DOMAIN flow_counters
    /\ clock - flow_counters[KeyOf(x)].prev_time > 0
\* the sample's utilization is above 0.7: 10 * bytes > 7 * seconds * capacity
Above(x) ==
    LET c == flow_counters[KeyOf(x)]
    IN  10 * ((x[2].rx_bytes - c.prev_rx) + (x[2].tx_bytes - c.prev_tx))
            > 7 * (clock - c.prev_time) * ((100 * 1024 * 1024) \div 8)

TransitionsOf(tr, key) == SelectSeq(tr, LAMBDA t : t[2] = key)

\* C2: in every step of a handler, the transitions logged for a key continue
\* the alternation Raised, Cleared, Raised, ... of that key's earlier log, and
\* a key whose membership of congested_links the step leaves unchanged logs
\* no transition.
C2_TransitionsAlternate ==
    [][clock' = clock =>
        \A key \in DOMAIN flow_counters' :
            LET logged == TransitionsOf(transitions', key)
                before == IF key \in DOMAIN last_transition
                          THEN last_transition[key] ELSE "Cleared"
            IN  /\ Len(logged) <= 1
                /\ (key \in congested_links' <=> key \in congested_links)
                      => logged = <<>>
                /\ logged # <<>> =>
                      /\ logged[1][1] \in {"Raised", "Cleared"}
                      /\ logged[1][1] # before
                      /\ last_transition'[key] = logged[1][1]
                /\ logged = <<>> =>
                      /\ key \in DOMAIN last_transition' <=>
                            key \in DOMAIN last_transition
                      /\ key \in DOMAIN last_transition =>
                            last_transition'[key] = last_transition[key]]_vars

\* a congested key whose last logged transition is Raised, after a stats
\* reply of its switch that logged nothing
C2_Witness ==
    \E key \in DOMAIN flow_counters :
        /\ event.kind = "PortStatsReceived" /\ event.dpid = key[1]
        /\ key \in congested_links
        /\ last_transition[key] = "Raised"
        /\ transitions = <<>>
        /\ flow_counters[key].prev_time = clock
        /\ Greater(flow_counters[key].utilization, congestion_threshold)

\* C3: for a sample after the first with a positive time delta, Raised is
\* logged and the key added exactly when the utilization is above 0.7 and the
\* key is not in congested_links; Cleared is logged and the key removed
\* exactly when the utilization is at most 0.7 and the key is in it.
C3_ThresholdIsStrict ==
    \A x \in Samples :
        Accepted(x) =>
            LET key == KeyOf(x)
                raise == Above(x) /\ key \notin congested_links
                clear == ~Above(x) /\ key \in congested_links
                after == Applied(x)
            IN  /\ after.tr = IF raise THEN <<<<"Raised", key>>>>
                              ELSE IF clear THEN <<<<"Cleared", key>>>>
                              ELSE <<>>
                /\ after.cl = IF raise THEN congested_links \cup {key}
                              ELSE IF clear THEN congested_links \ {key}
                              ELSE congested_links

\* a congested key whose last sample was at exactly 0.7 has just been cleared
C3_Witness ==
    \E key \in DOMAIN flow_counters :
        /\ event.kind = "PortStatsReceived" /\ event.dpid = key[1]
        /\ flow_counters[key].utilization = [num |-> 7, den |-> 10]
        /\ transitions = <<<<"Cleared", key>>>>
        /\ key \notin congested_links

\* C10: the first sample of a key is stored as its baseline with utilization
\* 0, logs no transition and leaves congested_links as it was.
C10_FirstSampleIsBaseline ==
    \A x \in Samples :
        KeyOf(x) \notin DOMAIN flow_counters =>
            LET key == KeyOf(x)
                after == Applied(x)
            IN  /\ DOMAIN after.fc = DOMAIN flow_counters \cup {key}
                /\ after.fc[key] = [prev_rx |-> x[2].rx_bytes,
                                    prev_tx |-> x[2].tx_bytes,
                                    prev_time |-> clock,
                                    utilization |-> [num |-> 0, den |-> 1]]
                /\ \A k \in DOMAIN flow_counters :
                      after.fc[k] = flow_counters[k]
                /\ after.tr = <<>>
                /\ after.cl = congested_links
                /\ after.lt = last_transition

\* a first sample carrying more than 70% of a second of capacity, stored at
\* time 0: no rate, no transition
C10_Witness ==
    \E key \in DOMAIN flow_counters :
        /\ event.kind = "PortStatsReceived" /\ event.dpid = key[1]
        /\ flow_counters[key] = [prev_rx |-> ThresholdBytes, prev_tx |-> 1,
                                 prev_time |-> 0,
                                 utilization |-> [num |-> 0, den |-> 1]]
        /\ key \notin congested_links
        /\ key \notin DOMAIN last_transition
        /\ transitions = <<>>

\* C11: a sample after the first whose time delta to the stored prev_time is
\* zero or negative changes nothing: the key's counters, every other key's,
\* congested_links and the log stay as they were.
C11_NonPositiveDeltaSkipped ==
    \A x \in Samples :
        (/\ KeyOf(x) \in DOMAIN flow_counters
         /\ clock - flow_counters[KeyOf(x)].prev_time <= 0) =>
            LET after == Applied(x)
            IN  /\ after.fc = flow_counters
                /\ after.cl = congested_links
                /\ after.tr = <<>>
                /\ after.lt = last_transition

\* a key whose stored prev_time is later than the clock, after a stats reply
\* of its switch: the counters still differ from every sample timed now
C11_Witness ==
    \E key \in DOMAIN flow_counters :
        /\ event.kind = "PortStatsReceived" /\ event.dpid = key[1]
        /\ flow_counters[key].prev_time > clock
        /\ flow_counters[key].prev_rx > 0
        /\ transitions = <<>>

\* the table-miss rule: wildcard match, priority 0, output to the controller,
\* no idle and no hard timeout
IsTableMiss(msg, dpid) ==
    /\ msg.kind = "flow_mod"
    /\ msg.to = dpid
    /\ msg.match = [in_port |-> 0, dl_src |-> 0, dl_dst |-> 0, dl_type |-> "ANY"]
    /\ msg.out_port = OFPP_CONTROLLER
    /\ msg.priority = 0
    /\ msg.idle_timeout = 0
    /\ msg.hard_timeout = 0

\* C12 as stated: once a switch id has had its ConnectionUp, no later step
\* sends a table-miss rule to that switch id again.
C12_TableMissOncePerSwitch ==
    [][\A d \in DOMAIN mac_table :
          \A i \in 1..Len(sent') : ~IsTableMiss(sent'[i], d)]_vars

\* C12 as amended: every ConnectionUp sends exactly one flow-install, the
\* table-miss rule for its switch, before anything else; no other handler
\* sends a rule of priority 0 or one that outputs to the controller.
C12_TableMissOncePerConnectionUp ==
    /\ event.kind = "ConnectionUp" =>
          /\ sent # <<>>
          /\ IsTableMiss(sent[1], event.dpid)
          /\ FlowMods = {1}
    /\ event.kind # "ConnectionUp" =>
          \A i \in FlowMods : /\ sent[i].priority # 0
                              /\ sent[i].out_port # OFPP_CONTROLLER

\* the second ConnectionUp of the only connected switch
C12_Witness ==
    /\ event.kind = "ConnectionUp"
    /\ connections = <<event.dpid>>
    /\ pending = 2
    /\ IsTableMiss(sent[1], event.dpid)

\* C13 as stated: an address present in a switch's table is present in it
\* after every step.
C13_EntriesNeverRemoved ==
    [][\A d \in DOMAIN mac_table : \A m \in DOMAIN mac_table[d] :
          d \in DOMAIN mac_table' /\ m \in DOMAIN mac_table'[d]]_vars

\* C13 as amended: an address present in a switch's table is present in it
\* after every step other than a ConnectionUp for that same switch id.
C13_EntriesRemovedOnlyByOwnConnectionUp ==
    [][\A d \in DOMAIN mac_table : \A m \in DOMAIN mac_table[d] :
          \/ event'.kind = "ConnectionUp" /\ event'.dpid = d
          \/ d \in DOMAIN mac_table' /\ m \in DOMAIN mac_table'[d]]_vars

\* the entries of one switch after the ConnectionUp of the other
C13_Witness ==
    /\ event.kind = "ConnectionUp"
    /\ \E d \in DOMAIN mac_table : d # event.dpid /\ mac_table[d] # <<>>

\* C14: a parsed packet-in is handled without error whether or not the
\* switch has had its ConnectionUp: afterwards the switch has a table and the
\* packet's source address is in it.
C14_UnknownSwitchHandled ==
    IsPacketIn =>
        /\ exception = "none"
        /\ event.dpid \in DOMAIN mac_table
        /\ event.packet.src \in DOMAIN mac_table[event.dpid]

\* C15: a packet-in whose packet could not be parsed sends no command and
\* leaves the learning tables, the counter state and the congested set as
\* they were.
C15_UnparsedDropped ==
    [][(event'.kind = "PacketIn" /\ ~event'.packet.parsed) =>
           /\ sent' = <<>>
           /\ exception' = "none"
           /\ mac_table' = mac_table
           /\ flow_counters' = flow_counters
           /\ congested_links' = congested_links]_vars

\* An unparsed packet-in has just been handled on a switch whose table
\* already holds an address.
C15_Witness ==
    /\ event.kind = "PacketIn"
    /\ ~event.packet.parsed
    /\ mac_table[event.dpid] # <<>>

\* C16: a statistics entry for a reserved port (number >= OFPP_MAX) is
\* skipped: no counter state and no congested entry ever exists for such a
\* port, and a reply is processed exactly as the same reply without its
\* reserved entries, so its other ports are still processed.
C16_ReservedPortsSkipped ==
    /\ \A key \in DOMAIN flow_counters \cup congested_links :
           key[2] < OFPP_MAX
    /\ \A d \in StatDpids : \A stats \in StatsReplies :
           ForEachStat(Entry, d, stats, clock) =
               ForEachStat(Entry, d,
                           SelectSeq(stats, LAMBDA stat :
                                                stat.port_no < OFPP_MAX),
                           clock)

\* A statistics reply has been handled, and a reply that names a reserved
\* port before an ordinary one would now change the ordinary port's counter
\* state.
C16_Witness ==
    /\ event.kind = "PortStatsReceived"
    /\ flow_counters # <<>>
    /\ \E stats \in StatsReplies :
           /\ Len(stats) = 2
           /\ stats[1].port_no >= OFPP_MAX
           /\ ForEachStat(Entry, event.dpid, stats, clock).fc # flow_counters

\* C17: the poll loop never dies and reaches every switch: a firing of the
\* timer sends exactly one port-stats request to every connected switch and
\* schedules the next firing; once a switch has connected a callback is
\* pending in every later state; and, the timer firing fairly, every
\* connected switch is sent a stats request by the timer again and again.
C17_PollLoopNeverDies ==
    /\ [](event.kind = "Timer" => sent = RequestAll(connections))
    /\ [](\A d \in Dpids :
             Contains(connections, d) =>
                 Cardinality({i \in 1..Len(RequestAll(connections)) :
                                RequestAll(connections)[i] = StatsRequest(d)})
                     = 1)
    /\ [][event'.kind = "Timer" => pending' = pending /\ pending' >= 1]_vars
    /\ [](connections # <<>> => pending >= 1)
    /\ \A d \in Dpids :
           [](Contains(connections, d) =>
                  <>(/\ event.kind = "Timer"
                     /\ \E i \in 1..Len(sent) : sent[i] = StatsRequest(d)))

\* The timer has fired with both switches connected, after the second switch
\* was handled by another event.
C17_Witness ==
    /\ event.kind = "Timer"
    /\ Len(connections) = 2
    /\ Len(sent) = 2
    /\ sent[1] # sent[2]
    /\ pending >= 1

\* C18: rates are relative to the immediately preceding accepted sample:
\* after a sample on a key that has counter state, taken a positive time
\* after the stored one, the key's prev_rx, prev_tx and prev_time are that
\* sample's bytes and time, and the utilization stored by the next accepted
\* sample is computed from the byte and time differences to that sample.
C18_RatesAgainstPrecedingSample ==
    \A x \in Samples :
        Accepted(x) =>
            LET after == Applied(x)
                c == after.fc[KeyOf(x)]
            IN  /\ c.prev_rx = x[2].rx_bytes
                /\ c.prev_tx = x[2].tx_bytes
                /\ c.prev_time = clock
                /\ \A y \in Samples :
                       KeyOf(y) = KeyOf(x) =>
                           _update_link_stats(after, y[1], y[2].port_no, y[2],
                                              clock + 1)
                               .fc[KeyOf(y)].utilization
                             = Utilization(y[2].rx_bytes - x[2].rx_bytes,
                                           y[2].tx_bytes - x[2].tx_bytes, 1)

\* A statistics reply has just stored a sample that is not the key's first:
\* its utilization is not the baseline's zero and its bytes differ from it.
C18_Witness ==
    \E key \in DOMAIN flow_counters :
        /\ event.kind = "PortStatsReceived"
        /\ flow_counters[key].prev_time = clock
        /\ flow_counters[key].utilization # Zero
        /\ flow_counters[key].prev_rx = 3 * ThresholdBytes

\* C19: in every state and for every (switch, port) key, the key is in
\* congested_links exactly when it has counter state whose stored
\* utilization is above 0.7; so congested_links is a subset of the keys of
\* flow_counters; and an accepted sample stores its utilization whether or
\* not it causes a transition.
C19_CongestedIffStoredAbove ==
    /\ congested_links \subseteq DOMAIN flow_counters
    /\ \A key \in DOMAIN flow_counters :
           key \in congested_links <=>
               10 * flow_counters[key].utilization.num
                   > 7 * flow_counters[key].utilization.den
    /\ \A x \in Samples :
           Accepted(x) =>
               LET c == flow_counters[KeyOf(x)]
               IN  Applied(x).fc[KeyOf(x)].utilization =
                       Utilization(x[2].rx_bytes - c.prev_rx,
                                   x[2].tx_bytes - c.prev_tx,
                                   clock - c.prev_time)

\* A statistics reply has just stored a sample on a congested key without a
\* transition: the key was congested before and still is.
C19_Witness ==
    \E key \in congested_links :
        /\ event.kind = "PortStatsReceived"
        /\ flow_counters[key].prev_time = clock
        /\ transitions = <<>>

\* the commands of the last handler that output to a port of the switch
Unicasts(msgs) ==
    {i \in 1..Len(msgs) : /\ msgs[i].kind \in {"flow_mod", "packet_out"}
                          /\ msgs[i].out_port < OFPP_MAX}

\* C20 as written: a flow-install or unicast packet-out with output port p on
\* switch S for destination d is issued only when an earlier parsed packet-in
\* on S, since S's last ConnectionUp, had source d and ingress port p: the
\* entry d -> p was in S's table before the packet-in that issues the command.
C20_SeenByEarlierPacketIn ==
    [][(event'.kind = "PacketIn" /\ Unicasts(sent') # {}) =>
           \A i \in Unicasts(sent') :
               /\ event'.packet.dst \in DOMAIN mac_table[event'.dpid]
               /\ mac_table[event'.dpid][event'.packet.dst]
                      = sent'[i].out_port]_vars

\* C20, amended: the output port p of a flow-install or unicast packet-out on
\* switch S for destination d is the entry of d in S's own table; an entry
\* m -> p appears in S's table only in the handling of a parsed packet-in on
\* S with source m and ingress port p, the one being handled included (its
\* source is learned before its destination is looked up); a ConnectionUp of
\* S leaves S's table empty; and a packet-in on S changes no other table.
C20_SeenOnSameSwitch ==
    /\ [](event.kind = "PacketIn" =>
              \A i \in Unicasts(sent) :
                  /\ sent[i].to = event.dpid
                  /\ event.packet.dst \in DOMAIN mac_table[event.dpid]
                  /\ sent[i].out_port = mac_table[event.dpid][event.packet.dst])
    /\ [](event.kind # "PacketIn" => Unicasts(sent) = {})
    /\ [](event.kind = "ConnectionUp" => mac_table[event.dpid] = <<>>)
    /\ [][\A d \in DOMAIN mac_table' : \A m \in DOMAIN mac_table'[d] :
              \/ /\ d \in DOMAIN mac_table
                 /\ m \in DOMAIN mac_table[d]
                 /\ mac_table'[d][m] = mac_table[d][m]
              \/ /\ event'.kind = "PacketIn"
                 /\ event'.packet.parsed
                 /\ event'.dpid = d
                 /\ event'.packet.src = m
                 /\ event'.port = mac_table'[d][m]]_vars

\* A unicast to a destination that another switch has learned on a different
\* port.
C20_Witness ==
    /\ IsOther
    /\ event.packet.dst # event.packet.src
    /\ Unicasts(sent) = {1, 2}
    /\ \E d \in DOMAIN mac_table :
           /\ d # event.dpid
           /\ event.packet.dst \in DOMAIN mac_table[d]
           /\ mac_table[d][event.packet.dst] # sent[1].out_port

=============================================================================
